---- MODULE Spec2Model ----
(***************************************************************************)
(* Model of clients/vscode/src/commands.ts of tabby: the two commands with *)
(* real control flow, tabby.openAuthPage (the authorization handshake) and *)
(* tabby.experimental.chat.generateCommitMessage.                          *)
(*                                                                         *)
(* JavaScript runs the callbacks single-threaded: the code between two     *)
(* awaits is one atomic step, so every action below is the code from one   *)
(* suspension point to the next.  The agent, the host's cancellation token *)
(* and the caller's hooks are the environment: their answers are inputs    *)
(* drawn with \E.                                                          *)
(***************************************************************************)
EXTENDS Integers, Sequences, FiniteSets, TLC

\* ------------------------------------------------------------------ bounds
\* Invocations of tabby.openAuthPage that may be in flight together.
NumAuthInvocations == 1

\* Invocations of generateCommitMessage that may be in flight together.
NumCommitInvocations == 1
\* The most repositories gitApi lists.
MaxRepos == 3
\* The modification times stat may report are 1..MaxMtime.
MaxMtime == 2

AuthInvocations == 1..NumAuthInvocations

CommitInvocations == 1..NumCommitInvocations

\* --------------------------------------------------------------- variables
VARIABLES
  authPc,       \* per invocation: "idle", "requesting", "polling", "done"
  authCallbacks,\* per invocation: which hooks the caller supplied
  authAborted,  \* per invocation: abortController.signal.aborted
  authTask,     \* per invocation: the withProgress task promise
  authLog,      \* per invocation: what it did, in order
  authOpen,     \* per invocation: the promise of env.openExternal, which is not awaited
  gitApi,       \* [present, repositories]: the roots (rootUri.fsPath) of the repositories
  inputBox,     \* per repository: repo.inputBox.value
  commitPc,     \* per invocation: "idle", "picking", "diffStaged", ..., "done"
  commitOffered,\* per invocation: the items handed to showQuickPick, in order
  commitRepo,   \* per invocation: the index of selectedRepo in gitApi.repositories, 0 if none
  commitChunks, \* per invocation: diffsWithPriority while it is built
  commitSent,   \* per invocation: the diffs handed to the agent
  commitAborted,\* per invocation: abortController.signal.aborted
  commitCallback,\* per invocation: the promise of the command callback
  commitTask,   \* per invocation: the withProgress task promise
  commitLog     \* per invocation: what it did, in order

authVars == <<authPc, authCallbacks, authAborted, authTask, authLog, authOpen>>

commitVars == <<gitApi, inputBox, commitPc, commitOffered, commitRepo, commitChunks,
                commitSent, commitAborted, commitCallback, commitTask,
                commitLog>>

vars == <<authPc, authCallbacks, authAborted, authTask, authLog, authOpen,
          gitApi, inputBox, commitPc, commitOffered, commitRepo, commitChunks,
          commitSent, commitAborted, commitCallback, commitTask,
          commitLog>>

\* ------------------------------------------------------------- environment
\* What requestAuthUrl may hand back when it issues a url.
AuthUrls == {[authUrl |-> "url1", code |-> "code1"],
             [authUrl |-> "url2", code |-> "code2"]}

\* error.name of what an agent call or a hook may throw.
ThrownNames == {"AbortError", "Error"}

\* agent().getStatus()
AgentStatuses == {"ready", "unauthorized"}

\* The hooks a caller may pass: callbacks?.onAuthStart, callbacks?.onAuthEnd.
CallbackChoices == [onAuthStart : BOOLEAN, onAuthEnd : BOOLEAN]

NoCallbacks == [onAuthStart |-> FALSE, onAuthEnd |-> FALSE]

\* How `await agent().requestAuthUrl({ signal })` may settle.
RequestAuthUrlResults ==
  {[kind |-> "url", authUrl |-> u.authUrl, code |-> u.code, error |-> "-"] : u \in AuthUrls}
    \cup {[kind |-> "null", authUrl |-> "-", code |-> "-", error |-> "-"]}
    \cup {[kind |-> "throw", authUrl |-> "-", code |-> "-", error |-> e] : e \in ThrownNames}

\* How `await agent().waitForAuthToken(code, { signal })` may settle.
WaitForAuthTokenResults ==
  {[kind |-> "ok", error |-> "-"]}
    \cup {[kind |-> "throw", error |-> e] : e \in ThrownNames}

\* The agent's contract on cancellation (spec section 6 and section 3): a call
\* bound to a signal fails with a cancellation-kind error if the signal has
\* fired, and with no cancellation-kind error otherwise.
AgentHonoursSignal(aborted, result) ==
  aborted <=> (result.kind = "throw" /\ result.error = "AbortError")

\* contract = TRUE: the agent keeps AgentHonoursSignal; FALSE: any answer.
AgentMayAnswer(contract, aborted, result) ==
  contract => AgentHonoursSignal(aborted, result)

\* ------------------------------------------------------------------ events
\* One entry of a log: what was done, with what, and a number: for an agent
\* call and an abort the invocation that owns the signal, for a diff call
\* and a write the repository, for a stat call the piece; 0 when none.
Ev(kind, arg, sig) == <<kind, arg, sig>>

\* ----------------------------------------------------- openAuthPage's code
\* A catch clause without the test for AbortError.
AuthCatch_NoAbortCheck(errorName) ==
  <<Ev("notify", "authFailed", 0)>>

\* A catch clause that shows nothing.
AuthCatch_Silent(errorName) ==
  IF errorName = "AbortError" THEN <<Ev("return", "cancelled", 0)>> ELSE <<>>

\* catch (error) { if (error.name === "AbortError") return; showInformationWhenAuthFailed() }
AuthCatch(errorName) ==
  IF errorName = "AbortError"
  THEN <<Ev("return", "cancelled", 0)>>
  ELSE <<Ev("notify", "authFailed", 0)>>

\* finally { callbacks?.onAuthEnd?.() }
AuthFinally(cb) ==
  IF cb.onAuthEnd THEN <<Ev("hook", "onAuthEnd", 0)>> ELSE <<>>

\* The promise of the task: a throwing onAuthEnd is the only thing that leaves
\* the try statement as an exception.
AuthTaskResult(cb, endThrows) ==
  IF cb.onAuthEnd /\ endThrows THEN "rejected" ELSE "resolved"

\* From the start of the task to its first await (or to its end).
AuthEnter(a, cb, startThrow) ==
  IF cb.onAuthStart /\ startThrow # "none"
  THEN [pc |-> "done",
        events |-> <<Ev("hook", "onAuthStart", 0), Ev("thrown", startThrow, 0)>>
                     \o AuthCatch(startThrow) \o AuthFinally(cb)]
  ELSE [pc |-> "requesting",
        events |-> (IF cb.onAuthStart THEN <<Ev("hook", "onAuthStart", 0)>> ELSE <<>>)
                     \o <<Ev("report", "generating", 0),
                          Ev("requestAuthUrl", "-", a)>>]

\* The branch without a url showing the notification of a fresh success.
AuthAfterRequest_FreshSuccess(a, cb, result, status, openThrows) ==
  CASE result.kind = "throw" ->
         [pc |-> "done",
          events |-> <<Ev("thrown", result.error, 0)>>
                       \o AuthCatch(result.error) \o AuthFinally(cb)]
    [] result.kind = "url" ->
         IF openThrows
         THEN [pc |-> "done",
               events |-> <<Ev("resolved", result.authUrl, 0), Ev("thrown", "Error", 0)>>
                            \o AuthCatch("Error") \o AuthFinally(cb)]
         ELSE [pc |-> "polling",
               events |-> <<Ev("resolved", result.authUrl, 0),
                            Ev("openExternal", result.authUrl, 0),
                            Ev("report", "waiting", 0),
                            Ev("waitForAuthToken", result.code, a)>>]
    [] result.kind = "null" ->
         [pc |-> "done",
          events |-> <<Ev("resolved", "null", 0), Ev("getStatus", status, 0)>>
                       \o (IF status = "ready"
                           THEN <<Ev("notify", "authSuccess", 0)>>
                           ELSE <<Ev("notify", "authFailed", 0)>>)
                       \o AuthFinally(cb)]

\* The branch without a url not looking at the status.
AuthAfterRequest_IgnoresStatus(a, cb, result, status, openThrows) ==
  CASE result.kind = "throw" ->
         [pc |-> "done",
          events |-> <<Ev("thrown", result.error, 0)>>
                       \o AuthCatch(result.error) \o AuthFinally(cb)]
    [] result.kind = "url" ->
         IF openThrows
         THEN [pc |-> "done",
               events |-> <<Ev("resolved", result.authUrl, 0), Ev("thrown", "Error", 0)>>
                            \o AuthCatch("Error") \o AuthFinally(cb)]
         ELSE [pc |-> "polling",
               events |-> <<Ev("resolved", result.authUrl, 0),
                            Ev("openExternal", result.authUrl, 0),
                            Ev("report", "waiting", 0),
                            Ev("waitForAuthToken", result.code, a)>>]
    [] result.kind = "null" ->
         [pc |-> "done",
          events |-> <<Ev("resolved", "null", 0), Ev("getStatus", status, 0),
                       Ev("notify", "alreadyAuthorized", 0)>>
                       \o AuthFinally(cb)]

\* if (authUrl) {...} else if (status === "ready") {...} else {...}, up to the
\* next await or to the end of the task.
AuthAfterRequest(a, cb, result, status, openThrows) ==
  CASE result.kind = "throw" ->
         [pc |-> "done",
          events |-> <<Ev("thrown", result.error, 0)>>
                       \o AuthCatch(result.error) \o AuthFinally(cb)]
    [] result.kind = "url" ->
         IF openThrows
         THEN [pc |-> "done",
               events |-> <<Ev("resolved", result.authUrl, 0), Ev("thrown", "Error", 0)>>
                            \o AuthCatch("Error") \o AuthFinally(cb)]
         ELSE [pc |-> "polling",
               events |-> <<Ev("resolved", result.authUrl, 0),
                            Ev("openExternal", result.authUrl, 0),
                            Ev("report", "waiting", 0),
                            Ev("waitForAuthToken", result.code, a)>>]
    [] result.kind = "null" ->
         [pc |-> "done",
          events |-> <<Ev("resolved", "null", 0), Ev("getStatus", status, 0)>>
                       \o (IF status = "ready"
                           THEN <<Ev("notify", "alreadyAuthorized", 0)>>
                           ELSE <<Ev("notify", "authFailed", 0)>>)
                       \o AuthFinally(cb)]

\* The success notification shown before the assertion.
AuthAfterWait_NotifyBeforeAssert(cb, result, status) ==
  CASE result.kind = "throw" ->
         <<Ev("thrown", result.error, 0)>> \o AuthCatch(result.error) \o AuthFinally(cb)
    [] result.kind = "ok" ->
         <<Ev("resolved", "token", 0), Ev("notify", "authSuccess", 0),
           Ev("getStatus", status, 0)>>
           \o (IF status = "ready"
               THEN <<>>
               ELSE <<Ev("thrown", "AssertionError", 0)>> \o AuthCatch("AssertionError"))
           \o AuthFinally(cb)

\* onAuthEnd called at the end of the try block, not in a finally clause.
AuthAfterWait_NoFinally(cb, result, status) ==
  CASE result.kind = "throw" ->
         <<Ev("thrown", result.error, 0)>> \o AuthCatch(result.error)
    [] result.kind = "ok" ->
         <<Ev("resolved", "token", 0), Ev("getStatus", status, 0)>>
           \o (IF status = "ready"
               THEN <<Ev("notify", "authSuccess", 0)>> \o AuthFinally(cb)
               ELSE <<Ev("thrown", "AssertionError", 0)>> \o AuthCatch("AssertionError"))

\* assert(agent().getStatus() === "ready"); showInformationAuthSuccess()
AuthAfterWait(cb, result, status) ==
  CASE result.kind = "throw" ->
         <<Ev("thrown", result.error, 0)>> \o AuthCatch(result.error) \o AuthFinally(cb)
    [] result.kind = "ok" ->
         <<Ev("resolved", "token", 0), Ev("getStatus", status, 0)>>
           \o (IF status = "ready"
               THEN <<Ev("notify", "authSuccess", 0)>>
               ELSE <<Ev("thrown", "AssertionError", 0)>> \o AuthCatch("AssertionError"))
           \o AuthFinally(cb)

\* ----------------------------------------------------------------- actions
\* The command is invoked: withProgress starts the task, which runs to its
\* first await.
AuthInvoke(a) ==
  /\ authPc[a] = "idle"
  /\ \E cb \in CallbackChoices, startThrow \in {"none"} \cup ThrownNames, endThrows \in BOOLEAN :
       LET step == AuthEnter(a, cb, startThrow) IN
       /\ (~cb.onAuthStart => startThrow = "none")
       /\ ((~cb.onAuthEnd \/ step.pc # "done") => ~endThrows)
       /\ authCallbacks' = [authCallbacks EXCEPT ![a] = cb]
       /\ authPc' = [authPc EXCEPT ![a] = step.pc]
       /\ authLog' = [authLog EXCEPT ![a] = @ \o step.events]
       /\ authTask' = [authTask EXCEPT ![a] =
                         IF step.pc = "done" THEN AuthTaskResult(cb, endThrows) ELSE "running"]
  /\ UNCHANGED <<authAborted, authOpen, commitVars>>

\* An abort() that acts on the signal at every call.
AuthTokenFires_AbortsEachTime(a) ==
  /\ authPc[a] # "idle"
  /\ authAborted' = [authAborted EXCEPT ![a] = TRUE]
  /\ authLog' = [authLog EXCEPT ![a] = Append(@, Ev("abort", "-", a))]
  /\ UNCHANGED <<authPc, authCallbacks, authTask, authOpen, commitVars>>

\* The host fires the token of a started task, any number of times and also
\* after the task has ended: the listener calls abortController.abort(),
\* which changes the signal the first time only.
AuthTokenFires(a) ==
  /\ authPc[a] # "idle"
  /\ authAborted' = [authAborted EXCEPT ![a] = TRUE]
  /\ authLog' = [authLog EXCEPT ![a] =
                   IF authAborted[a] THEN @ ELSE Append(@, Ev("abort", "-", a))]
  /\ UNCHANGED <<authPc, authCallbacks, authTask, authOpen, commitVars>>

\* requestAuthUrl settles and the task runs on to its next await or its end.
AuthRequestSettles(a, contract) ==
  /\ authPc[a] = "requesting"
  /\ \E result \in RequestAuthUrlResults, status \in AgentStatuses,
        openThrows \in BOOLEAN, endThrows \in BOOLEAN :
       LET cb == authCallbacks[a]
           step == AuthAfterRequest(a, cb, result, status, openThrows) IN
       /\ AgentMayAnswer(contract, authAborted[a], result)
       \* inputs the path taken does not read are fixed
       /\ (result.kind # "url" => ~openThrows)
       /\ (result.kind # "null" => status = "ready")
       /\ ((~cb.onAuthEnd \/ step.pc # "done") => ~endThrows)
       /\ authPc' = [authPc EXCEPT ![a] = step.pc]
       /\ authLog' = [authLog EXCEPT ![a] = @ \o step.events]
       /\ authTask' = [authTask EXCEPT ![a] =
                         IF step.pc = "done" THEN AuthTaskResult(cb, endThrows) ELSE "running"]
       \* env.openExternal returned its promise and the task went on
       /\ authOpen' = [authOpen EXCEPT ![a] = IF step.pc = "polling" THEN "pending" ELSE @]
  /\ UNCHANGED <<authCallbacks, authAborted, commitVars>>

\* waitForAuthToken settles and the task runs to its end.
AuthWaitSettles(a, contract) ==
  /\ authPc[a] = "polling"
  /\ \E result \in WaitForAuthTokenResults, status \in AgentStatuses, endThrows \in BOOLEAN :
       LET cb == authCallbacks[a] IN
       /\ AgentMayAnswer(contract, authAborted[a], result)
       \* inputs the path taken does not read are fixed
       /\ (result.kind # "ok" => status = "ready")
       /\ (~cb.onAuthEnd => ~endThrows)
       /\ authPc' = [authPc EXCEPT ![a] = "done"]
       /\ authLog' = [authLog EXCEPT ![a] = @ \o AuthAfterWait(cb, result, status)]
       /\ authTask' = [authTask EXCEPT ![a] = AuthTaskResult(cb, endThrows)]
  /\ UNCHANGED <<authCallbacks, authAborted, authOpen, commitVars>>

\* What the promise of env.openExternal may settle to: the browser opened
\* the url or it did not.
OpenExternalResults == {"opened", "notOpened"}

\* The promise of env.openExternal settles.  Nothing awaits it and nothing
\* reads its value: the task is where it was.
AuthOpenSettles(a) ==
  /\ authOpen[a] = "pending"
  /\ \E opened \in OpenExternalResults :
       authOpen' = [authOpen EXCEPT ![a] = opened]
  /\ UNCHANGED <<authPc, authCallbacks, authAborted, authTask, authLog, commitVars>>

\* ------------------------------------------- generateCommitMessage: paths
\* A path is the sequence of its characters.  The roots the host may list:
\* /a /b /c /bc /c/a /c/b /b/c /bc/a.
RepoRootUniverse ==
  { <<"/", "a">>, <<"/", "b">>, <<"/", "c">>, <<"/", "b", "c">>,
    <<"/", "c", "/", "a">>, <<"/", "c", "/", "b">>, <<"/", "b", "/", "c">>,
    <<"/", "b", "c", "/", "a">> }

\* The collation order of the characters of a name.
Alphabet == <<"a", "b", "c">>

Rank(ch) == CHOOSE i \in DOMAIN Alphabet : Alphabet[i] = ch

\* String.prototype.startsWith
StartsWith(s, prefix) ==
  Len(prefix) <= Len(s) /\ SubSeq(s, 1, Len(prefix)) = prefix

\* path.basename of a path without a trailing separator
Basename(path) ==
  LET slashes == {i \in DOMAIN path : path[i] = "/"}
      last == IF slashes = {} THEN 0 ELSE CHOOSE i \in slashes : \A k \in slashes : k <= i
  IN SubSeq(path, last + 1, Len(path))

\* String.prototype.localeCompare on names: negative, 0 or positive.
RECURSIVE LocaleCompare(_, _)
LocaleCompare(x, y) ==
  IF x = <<>> /\ y = <<>> THEN 0
  ELSE IF x = <<>> THEN -1
  ELSE IF y = <<>> THEN 1
  ELSE IF Rank(Head(x)) < Rank(Head(y)) THEN -1
  ELSE IF Rank(Head(x)) > Rank(Head(y)) THEN 1
  ELSE LocaleCompare(Tail(x), Tail(y))

\* The quick-pick item of repository i: label, detail and value (the icon,
\* picked and alwaysShow do not enter the order of the items).
RepoItem(repos, i) ==
  [label |-> Basename(repos[i]), detail |-> repos[i], value |-> i]

\* The comparator handed to sort.
CompareItems(a, b) ==
  IF StartsWith(a.detail, b.detail) THEN 1
  ELSE IF StartsWith(b.detail, a.detail) THEN -1
  ELSE LocaleCompare(a.label, b.label)

\* The comparator with its operands exchanged.
ComparePriority_Descending(a, b) == b.priority - a.priority

\* The comparator handed to the sort of the diffs: a.priority - b.priority.
ComparePriority(a, b) == a.priority - b.priority

\* The two comparators of this file, by name.
Compare(cmp, a, b) ==
  IF cmp = "repoItems" THEN CompareItems(a, b) ELSE ComparePriority(a, b)

\* --------------------------------------------------- Array.prototype.sort
\* The engine the extension runs on (V8) sorts an array shorter than 64 as
\* one run: it takes the longest ascending or strictly descending prefix
\* (reversing a descending one) and inserts the rest by binary insertion.
Reverse(arr) == [i \in 1..Len(arr) |-> arr[Len(arr) + 1 - i]]

RECURSIVE RunEnd(_, _, _, _)
RunEnd(cmp, arr, idx, descending) ==
  IF idx > Len(arr) THEN idx - 1
  ELSE LET order == Compare(cmp, arr[idx], arr[idx - 1]) IN
       IF (descending /\ order >= 0) \/ (~descending /\ order < 0)
       THEN idx - 1
       ELSE RunEnd(cmp, arr, idx + 1, descending)

CountAndMakeRun(cmp, arr) ==
  LET descending == Compare(cmp, arr[2], arr[1]) < 0
      n == RunEnd(cmp, arr, 3, descending)
  IN [run |-> n,
      arr |-> IF descending
              THEN Reverse(SubSeq(arr, 1, n)) \o SubSeq(arr, n + 1, Len(arr))
              ELSE arr]

\* The pivot put before the elements it compares equal to.
RECURSIVE BinarySearch_BeforeEquals(_, _, _, _, _)
BinarySearch_BeforeEquals(cmp, arr, pivot, left, right) ==
  IF left >= right THEN left
  ELSE LET mid == left + ((right - left) \div 2) IN
       IF Compare(cmp, pivot, arr[mid]) <= 0
       THEN BinarySearch_BeforeEquals(cmp, arr, pivot, left, mid)
       ELSE BinarySearch_BeforeEquals(cmp, arr, pivot, mid + 1, right)

\* Where pivot goes in the sorted arr[left .. right-1].
RECURSIVE BinarySearch(_, _, _, _, _)
BinarySearch(cmp, arr, pivot, left, right) ==
  IF left >= right THEN left
  ELSE LET mid == left + ((right - left) \div 2) IN
       IF Compare(cmp, pivot, arr[mid]) < 0
       THEN BinarySearch(cmp, arr, pivot, left, mid)
       ELSE BinarySearch(cmp, arr, pivot, mid + 1, right)

RECURSIVE BinaryInsertionSort(_, _, _)
BinaryInsertionSort(cmp, arr, start) ==
  IF start > Len(arr) THEN arr
  ELSE LET pivot == arr[start]
           pos == BinarySearch(cmp, arr, pivot, 1, start)
       IN BinaryInsertionSort(cmp,
            SubSeq(arr, 1, pos - 1) \o <<pivot>> \o SubSeq(arr, pos, start - 1)
              \o SubSeq(arr, start + 1, Len(arr)),
            start + 1)

ArraySort(cmp, arr) ==
  IF Len(arr) < 2 THEN arr
  ELSE LET r == CountAndMakeRun(cmp, arr) IN BinaryInsertionSort(cmp, r.arr, r.run + 1)

\* repos.map(...).sort(...): what the picker offers.
PickerItems(repos) == ArraySort("repoItems", [i \in 1..Len(repos) |-> RepoItem(repos, i)])

\* ------------------------------------------- generateCommitMessage: diffs
\* A text is the sequence of its lines (the text is the lines joined by
\* "\n", so the empty string is one empty line), and a line is the sequence
\* of its tokens.  " " is the token that is white space.
EmptyText == << <<>> >>

IsSpace(token) == token = " "

RECURSIVE TrimStartLine(_)
TrimStartLine(line) ==
  IF line # <<>> /\ IsSpace(Head(line)) THEN TrimStartLine(Tail(line)) ELSE line

RECURSIVE TrimEndLine(_)
TrimEndLine(line) ==
  IF line # <<>> /\ IsSpace(line[Len(line)])
  THEN TrimEndLine(SubSeq(line, 1, Len(line) - 1))
  ELSE line

RECURSIVE TrimStart(_)
TrimStart(text) ==
  IF Len(text) > 1 /\ TrimStartLine(Head(text)) = <<>>
  THEN TrimStart(Tail(text))
  ELSE <<TrimStartLine(Head(text))>> \o Tail(text)

RECURSIVE TrimEnd(_)
TrimEnd(text) ==
  LET n == Len(text) IN
  IF n > 1 /\ TrimEndLine(text[n]) = <<>>
  THEN TrimEnd(SubSeq(text, 1, n - 1))
  ELSE SubSeq(text, 1, n - 1) \o <<TrimEndLine(text[n])>>

\* String.prototype.trim
Trim(text) == TrimEnd(TrimStart(text))

\* The tokens that begin with the characters "diff".
DiffTokens == {"diff --git a/", "diff --cc ", "diffstat"}

StartsWithDiff(line) == line # <<>> /\ Head(line) \in DiffTokens

\* diff.split(/\n(?=diff)/): a new piece starts at every line after the first
\* that begins with "diff"; the "\n" before it is the separator.
RECURSIVE SplitDiff(_)
SplitDiff(text) ==
  LET n == Len(text)
      cuts == {i \in 2..n : StartsWithDiff(text[i])}
  IN IF cuts = {} THEN <<text>>
     ELSE LET c == CHOOSE i \in cuts : \A k \in cuts : i <= k
          IN <<SubSeq(text, 1, c - 1)>> \o SplitDiff(SubSeq(text, c, n))

\* /diff --git a\/.* b\/(.*)$/ on one line: whether it matches, and the
\* capture: the tokens after the last " b/" that follows a "diff --git a/".
LineMatch(line) ==
  LET starts == {i \in DOMAIN line : line[i] = "diff --git a/"}
      bs == {j \in DOMAIN line : line[j] = " b/" /\ \E i \in starts : i < j}
  IN IF bs = {} THEN [matched |-> FALSE, capture |-> <<>>]
     ELSE LET j == CHOOSE x \in bs : \A y \in bs : y <= x
          IN [matched |-> TRUE, capture |-> SubSeq(line, j + 1, Len(line))]

\* /diff --git a\/.* b\/(.*)$/gm.exec(item)?.[1]: the capture of the first
\* line that matches.
FilePath(item) ==
  LET hits == {i \in DOMAIN item : LineMatch(item[i]).matched}
  IN IF hits = {} THEN [matched |-> FALSE, capture |-> <<>>]
     ELSE LineMatch(item[CHOOSE i \in hits : \A k \in hits : i <= k])

\* if (filepath): no match (undefined) and the empty string are falsy.
HasFilePath(item) == FilePath(item).matched /\ FilePath(item).capture # <<>>

\* Number.MAX_SAFE_INTEGER, scaled to 32-bit integers: larger
\* than every modification time.
MAX_SAFE_INTEGER == 2147483647

\* The map callback up to its await: the entry of one piece, with the stat
\* call it waits for, if any.
ChunkEntry(item) ==
  [diff |-> item, priority |-> MAX_SAFE_INTEGER, pending |-> HasFilePath(item)]

\* The pieces without a modification time left out.
SortedDiffs_DropsSentinel(entries) ==
  LET sorted == ArraySort("priority", entries)
      kept == SelectSeq(sorted, LAMBDA e : e.priority # MAX_SAFE_INTEGER)
  IN [i \in 1..Len(kept) |-> kept[i].diff]

\* diffsWithPriority.sort(...).map((item) => item.diff)
SortedDiffs(entries) ==
  LET sorted == ArraySort("priority", entries)
  IN [i \in 1..Len(sorted) |-> sorted[i].diff]

\* ------------------------------------------- generateCommitMessage: steps
\* gitApi?.repositories ?? []
Repositories == IF gitApi.present THEN gitApi.repositories ELSE <<>>

\* The branch for no repository without its return.
CommitEnter_NoReturn(repos) ==
  IF Len(repos) = 1
  THEN [pc |-> "diffStaged", repo |-> 1, offered |-> <<>>,
        events |-> <<Ev("diff", "staged", 1)>>]
  ELSE [pc |-> "picking", repo |-> 0, offered |-> PickerItems(repos),
        events |-> (IF Len(repos) < 1
                    THEN <<Ev("showInformationMessage", "No Git repositories found.", 0)>>
                    ELSE <<>>)
                     \o <<Ev("showQuickPick", "Select a Git repository", 0)>>]

\* From the start of the callback to its first await, or to its return.
CommitEnter(repos) ==
  IF Len(repos) < 1
  THEN [pc |-> "done", repo |-> 0, offered |-> <<>>,
        events |-> <<Ev("showInformationMessage", "No Git repositories found.", 0)>>]
  ELSE IF Len(repos) = 1
  THEN [pc |-> "diffStaged", repo |-> 1, offered |-> <<>>,
        events |-> <<Ev("diff", "staged", 1)>>]
  ELSE [pc |-> "picking", repo |-> 0, offered |-> PickerItems(repos),
        events |-> <<Ev("showQuickPick", "Select a Git repository", 0)>>]

\* A dismissed picker taken as the choice of the first item.
CommitAfterPick_DismissedTakesFirst(offered, choice) ==
  LET item == offered[IF choice = 0 THEN 1 ELSE choice] IN
  [pc |-> "diffStaged", repo |-> item.value,
   events |-> <<Ev("diff", "staged", item.value)>>]

\* selectedRepo = selected?.value; if (!selectedRepo) return; then the
\* staged diff is asked for.  choice is an index into the offered items, 0
\* when the user dismissed the picker.
CommitAfterPick(offered, choice) ==
  IF choice = 0
  THEN [pc |-> "done", repo |-> 0, events |-> <<>>]
  ELSE [pc |-> "diffStaged", repo |-> offered[choice].value,
        events |-> <<Ev("diff", "staged", offered[choice].value)>>]

\* The stat calls the map callbacks start, in the order of the pieces.
StatCalls(entries) ==
  LET calls == [i \in 1..Len(entries) |-> Ev("stat", "-", i)]
  IN SelectSeq(calls, LAMBDA e : entries[e[3]].pending)

\* A race in the place of Promise.all: the first lookup to resolve ends
\* the wait.
AllSettled_FirstSettled(entries) ==
  \A i \in DOMAIN entries : ~HasFilePath(entries[i].diff) \/
    \E j \in DOMAIN entries : HasFilePath(entries[j].diff) /\ ~entries[j].pending

\* Promise.all resolves when the promise of every entry has resolved.
AllSettled(entries) == \A i \in DOMAIN entries : ~entries[i].pending

\* Promise.all has settled every entry: sort, and call the agent.
CommitAfterStats(g, entries) ==
  [pc |-> "generating", sent |-> SortedDiffs(entries),
   events |-> <<Ev("generateCommitMessage", "-", g)>>]

\* The task from its start to its first await that waits for the outside:
\* the stat calls, or the agent call when no piece names a file.
CommitTaskStart(g, diff) ==
  LET entries == [i \in 1..Len(SplitDiff(diff)) |-> ChunkEntry(SplitDiff(diff)[i])]
      after == CommitAfterStats(g, entries)
  IN IF AllSettled(entries)
     THEN [pc |-> after.pc, chunks |-> entries, sent |-> after.sent,
           events |-> after.events]
     ELSE [pc |-> "stats", chunks |-> entries, sent |-> <<>>,
           events |-> StatCalls(entries)]

\* The second test for an empty diff left out: the task starts on it.
CommitAfterDiff_EmptyGoesOn(g, repo, cached, text) ==
  LET diff == Trim(text) IN
  IF diff = EmptyText /\ cached
  THEN [pc |-> "diffUnstaged", chunks |-> <<>>, sent |-> <<>>,
        callback |-> "pending", task |-> "none",
        events |-> <<Ev("diff", "unstaged", repo)>>]
  ELSE LET start == CommitTaskStart(g, diff) IN
       [pc |-> start.pc, chunks |-> start.chunks, sent |-> start.sent,
        callback |-> "resolved", task |-> "running",
        events |-> <<Ev("executeCommand", "workbench.view.scm", 0),
                     Ev("withProgress", "Generating commit message...", 0)>>
                     \o start.events]

\* The unstaged diff asked for whatever the staged diff holds.
CommitAfterDiff_AlwaysAsksUnstaged(g, repo, cached, text) ==
  LET diff == Trim(text) IN
  IF cached
  THEN [pc |-> "diffUnstaged", chunks |-> <<>>, sent |-> <<>>,
        callback |-> "pending", task |-> "none",
        events |-> <<Ev("diff", "unstaged", repo)>>]
  ELSE IF diff = EmptyText
  THEN [pc |-> "done", chunks |-> <<>>, sent |-> <<>>,
        callback |-> "resolved", task |-> "none", events |-> <<>>]
  ELSE LET start == CommitTaskStart(g, diff) IN
       [pc |-> start.pc, chunks |-> start.chunks, sent |-> start.sent,
        callback |-> "resolved", task |-> "running",
        events |-> <<Ev("executeCommand", "workbench.view.scm", 0),
                     Ev("withProgress", "Generating commit message...", 0)>>
                     \o start.events]

\* An agent call that failed taken as one that resolved to no text.
CommitAfterAgent_WritesOnThrow(repo, result) ==
  IF result.kind = "throw"
  THEN [task |-> "resolved", writes |-> (repo :> ""),
        events |-> <<Ev("inputBox", "", repo)>>]
  ELSE [task |-> "resolved", writes |-> (repo :> result.message),
        events |-> <<Ev("inputBox", result.message, repo)>>]

\* The message written to the first repository the host lists.
CommitAfterAgent_WritesFirst(repo, result) ==
  IF result.kind = "throw"
  THEN [task |-> "rejected", writes |-> <<>>, events |-> <<>>]
  ELSE [task |-> "resolved", writes |-> (1 :> result.message),
        events |-> <<Ev("inputBox", result.message, 1)>>]

\* From the settling of `await agent().generateCommitMessage(diffs, ...)` to
\* the end of the task: repo.inputBox.value = message, or the exception
\* leaves the task.  writes maps the repositories written to the new value.
CommitAfterAgent(repo, result) ==
  IF result.kind = "throw"
  THEN [task |-> "rejected", writes |-> <<>>, events |-> <<>>]
  ELSE [task |-> "resolved", writes |-> (repo :> result.message),
        events |-> <<Ev("inputBox", result.message, repo)>>]

\* The callback awaiting the progress task it started.
CommitAfterDiff_AwaitsTask(g, repo, cached, text) ==
  LET diff == Trim(text) IN
  IF diff = EmptyText /\ cached
  THEN [pc |-> "diffUnstaged", chunks |-> <<>>, sent |-> <<>>,
        callback |-> "pending", task |-> "none",
        events |-> <<Ev("diff", "unstaged", repo)>>]
  ELSE IF diff = EmptyText
  THEN [pc |-> "done", chunks |-> <<>>, sent |-> <<>>,
        callback |-> "resolved", task |-> "none", events |-> <<>>]
  ELSE LET start == CommitTaskStart(g, diff) IN
       [pc |-> start.pc, chunks |-> start.chunks, sent |-> start.sent,
        callback |-> "pending", task |-> "running",
        events |-> <<Ev("executeCommand", "workbench.view.scm", 0),
                     Ev("withProgress", "Generating commit message...", 0)>>
                     \o start.events]

\* After `diff = (await repo.diff(cached)).trim()`: an empty staged diff asks
\* for the unstaged one, an empty unstaged diff returns, and any other diff
\* focuses the scm view and starts the progress task; the callback returns
\* without waiting for the task.
CommitAfterDiff(g, repo, cached, text) ==
  LET diff == Trim(text) IN
  IF diff = EmptyText /\ cached
  THEN [pc |-> "diffUnstaged", chunks |-> <<>>, sent |-> <<>>,
        callback |-> "pending", task |-> "none",
        events |-> <<Ev("diff", "unstaged", repo)>>]
  ELSE IF diff = EmptyText
  THEN [pc |-> "done", chunks |-> <<>>, sent |-> <<>>,
        callback |-> "resolved", task |-> "none", events |-> <<>>]
  ELSE LET start == CommitTaskStart(g, diff) IN
       [pc |-> start.pc, chunks |-> start.chunks, sent |-> start.sent,
        callback |-> "resolved", task |-> "running",
        events |-> <<Ev("executeCommand", "workbench.view.scm", 0),
                     Ev("withProgress", "Generating commit message...", 0)>>
                     \o start.events]

\* ------------------------------ generateCommitMessage: the environment
\* The header line of the diff of one file.
Header(file) == <<"diff --git a/", file, " b/", file>>

\* What repo.diff may resolve to: nothing, white space only, one file, two
\* files, a second file whose header does not parse, no header at all.
DiffTextList ==
  << EmptyText,
     << <<>>, <<" ">> >>,
     << Header("f1"), <<"+x">>, <<>> >>,
     << Header("f1"), <<"+x">>, Header("f2"), <<"-y">> >>,
     << Header("f1"), <<"+x">>, <<"diff --cc ", "f2">>, <<"-y">> >>,
     << <<"+x">> >> >>

DiffTexts == {DiffTextList[k] : k \in DOMAIN DiffTextList}

\* Diffs of three files for the order of the pieces: three headers that
\* parse, and a first header that does not.
SortTextList ==
  << << Header("f1"), <<"+x">>, Header("f2"), <<"-y">>, Header("f3"), <<"+z">> >>,
     << <<"diff --cc ", "f1">>, <<"+x">>, Header("f2"), <<"-y">>, Header("f3"), <<"+z">> >> >>

KnownTexts == DiffTextList \o SortTextList

\* The place of a text in KnownTexts, the name the log gives it.
TextIndex(text) == CHOOSE k \in DOMAIN KnownTexts : KnownTexts[k] = text

DiffResults ==
  {[kind |-> "text", text |-> t, error |-> "-"] : t \in DiffTexts}
    \cup {[kind |-> "throw", text |-> EmptyText, error |-> "Error"]}

Mtimes == 1..MaxMtime

StatResults ==
  {[kind |-> "stat", mtime |-> m, error |-> "-"] : m \in Mtimes}
    \cup {[kind |-> "throw", mtime |-> 0, error |-> "Error"]}

GenerateResults ==
  {[kind |-> "message", message |-> m, error |-> "-"] : m \in {"message 1", "message 2"}}
    \cup {[kind |-> "throw", message |-> "-", error |-> e] : e \in ThrownNames}

\* --------------------------------------- generateCommitMessage: actions
\* The command is invoked and runs to its first await.
CommitInvoke(g) ==
  /\ commitPc[g] = "idle"
  /\ LET step == CommitEnter(Repositories) IN
     /\ commitPc' = [commitPc EXCEPT ![g] = step.pc]
     /\ commitRepo' = [commitRepo EXCEPT ![g] = step.repo]
     /\ commitOffered' = [commitOffered EXCEPT ![g] = step.offered]
     /\ commitCallback' = [commitCallback EXCEPT ![g] =
                             IF step.pc = "done" THEN "resolved" ELSE "pending"]
     /\ commitLog' = [commitLog EXCEPT ![g] = @ \o step.events]
  /\ UNCHANGED <<gitApi, inputBox, commitChunks, commitSent, commitAborted,
                 commitTask, authVars>>

\* showQuickPick settles: the user picks an item or dismisses the picker.
CommitPickSettles(g) ==
  /\ commitPc[g] = "picking"
  /\ \E choice \in 0..Len(commitOffered[g]) :
       LET step == CommitAfterPick(commitOffered[g], choice) IN
       /\ commitPc' = [commitPc EXCEPT ![g] = step.pc]
       /\ commitRepo' = [commitRepo EXCEPT ![g] = step.repo]
       /\ commitCallback' = [commitCallback EXCEPT ![g] =
                               IF step.pc = "done" THEN "resolved" ELSE "pending"]
       /\ commitLog' = [commitLog EXCEPT ![g] =
                          Append(@, Ev("picked", IF choice = 0 THEN "undefined" ELSE "item", choice))
                            \o step.events]
  /\ UNCHANGED <<gitApi, inputBox, commitOffered, commitChunks, commitSent,
                 commitAborted, commitTask, authVars>>

\* repo.diff(true) or repo.diff(false) settles; a rejection leaves the
\* callback as an exception.
CommitDiffSettles(g, cached, results) ==
  /\ commitPc[g] = (IF cached THEN "diffStaged" ELSE "diffUnstaged")
  /\ \E result \in results :
       IF result.kind = "throw"
       THEN /\ commitPc' = [commitPc EXCEPT ![g] = "done"]
            /\ commitCallback' = [commitCallback EXCEPT ![g] = "rejected"]
            /\ commitLog' = [commitLog EXCEPT ![g] = Append(@, Ev("thrown", result.error, 0))]
            /\ UNCHANGED <<commitChunks, commitSent, commitTask>>
       ELSE LET step == CommitAfterDiff(g, commitRepo[g], cached, result.text) IN
            /\ commitPc' = [commitPc EXCEPT ![g] = step.pc]
            /\ commitChunks' = [commitChunks EXCEPT ![g] = step.chunks]
            /\ commitSent' = [commitSent EXCEPT ![g] = step.sent]
            /\ commitCallback' = [commitCallback EXCEPT ![g] = step.callback]
            /\ commitTask' = [commitTask EXCEPT ![g] = step.task]
            /\ commitLog' = [commitLog EXCEPT ![g] =
                               Append(@, Ev("diffResolved",
                                            IF cached THEN "staged" ELSE "unstaged",
                                            TextIndex(result.text)))
                                 \o step.events]
  /\ UNCHANGED <<gitApi, inputBox, commitOffered, commitRepo, commitAborted,
                 authVars>>

\* One AbortController shared by the invocations: a token that fires
\* aborts the signal of every started task.
CommitTokenFires_SharedController(g) ==
  /\ commitTask[g] # "none"
  /\ commitAborted' = [h \in DOMAIN commitAborted |->
                         commitAborted[h] \/ h = g \/ commitTask[h] # "none"]
  /\ commitLog' = [h \in DOMAIN commitLog |->
                     IF commitAborted'[h] /\ ~commitAborted[h]
                     THEN Append(commitLog[h], Ev("abort", "-", g))
                     ELSE commitLog[h]]
  /\ UNCHANGED <<gitApi, inputBox, commitPc, commitOffered, commitRepo, commitChunks,
                 commitSent, commitCallback, commitTask, authVars>>

\* The host fires the token of a started task.
CommitTokenFires(g) ==
  /\ commitTask[g] # "none"
  /\ commitAborted' = [commitAborted EXCEPT ![g] = TRUE]
  /\ commitLog' = [commitLog EXCEPT ![g] =
                     IF commitAborted[g] THEN @ ELSE Append(@, Ev("abort", "-", g))]
  /\ UNCHANGED <<gitApi, inputBox, commitPc, commitOffered, commitRepo, commitChunks,
                 commitSent, commitCallback, commitTask, authVars>>

\* One stat call settles with one of results.  A rejection rejects
\* Promise.all and with it the task; the last resolution lets the task sort
\* and call the agent.
CommitStatSettles(g, results) ==
  /\ commitPc[g] = "stats"
  /\ \E k \in DOMAIN commitChunks[g], result \in results :
       /\ commitChunks[g][k].pending
       /\ IF result.kind = "throw"
          THEN /\ commitPc' = [commitPc EXCEPT ![g] = "done"]
               /\ commitTask' = [commitTask EXCEPT ![g] = "rejected"]
               /\ commitChunks' = [commitChunks EXCEPT ![g][k].pending = FALSE]
               /\ commitLog' = [commitLog EXCEPT ![g] = Append(@, Ev("thrown", result.error, k))]
               /\ UNCHANGED commitSent
          ELSE LET entries == [commitChunks[g] EXCEPT ![k].priority = result.mtime,
                                                       ![k].pending = FALSE]
                   after == CommitAfterStats(g, entries) IN
               /\ commitChunks' = [commitChunks EXCEPT ![g] = entries]
               /\ UNCHANGED commitTask
               /\ IF AllSettled(entries)
                  THEN /\ commitPc' = [commitPc EXCEPT ![g] = after.pc]
                       /\ commitSent' = [commitSent EXCEPT ![g] = after.sent]
                       /\ commitLog' = [commitLog EXCEPT ![g] = @ \o after.events]
                  ELSE UNCHANGED <<commitPc, commitSent, commitLog>>
  /\ UNCHANGED <<gitApi, inputBox, commitOffered, commitRepo, commitAborted,
                 commitCallback, authVars>>

\* agent().generateCommitMessage settles and the task ends.  The log holds
\* what the agent answered, then what the task did with it.
CommitAgentSettles(g, contract) ==
  /\ commitPc[g] = "generating"
  /\ \E result \in GenerateResults :
       LET step == CommitAfterAgent(commitRepo[g], result) IN
       /\ AgentMayAnswer(contract, commitAborted[g], result)
       /\ commitPc' = [commitPc EXCEPT ![g] = "done"]
       /\ commitTask' = [commitTask EXCEPT ![g] = step.task]
       /\ inputBox' = [r \in DOMAIN inputBox |->
                         IF r \in DOMAIN step.writes THEN step.writes[r] ELSE inputBox[r]]
       /\ commitLog' = [commitLog EXCEPT ![g] =
                          Append(@, IF result.kind = "throw"
                                    THEN Ev("thrown", result.error, 0)
                                    ELSE Ev("generated", result.message, 0))
                            \o step.events]
  /\ UNCHANGED <<gitApi, commitOffered, commitRepo, commitChunks, commitSent,
                 commitAborted, commitCallback, authVars>>

\* ---------------------------------------------------------- specifications
\* The sequences of length 0..MaxRepos of distinct roots.
RepoLists ==
  {<<>>} \cup UNION {{r \in [1..n -> RepoRootUniverse] :
                        \A i, j \in 1..n : i # j => r[i] # r[j]} : n \in 1..MaxRepos}

\* No invocation of invocations has started.
AuthInitFor(invocations) ==
  /\ authPc = [a \in invocations |-> "idle"]
  /\ authCallbacks = [a \in invocations |-> NoCallbacks]
  /\ authAborted = [a \in invocations |-> FALSE]
  /\ authTask = [a \in invocations |-> "none"]
  /\ authLog = [a \in invocations |-> <<>>]
  /\ authOpen = [a \in invocations |-> "none"]

AuthInit == AuthInitFor(AuthInvocations)

\* The host lists one of repoLists, or the Git extension is missing.
CommitInitFor(repoLists, invocations) ==
  /\ gitApi \in {[present |-> FALSE, repositories |-> <<>>]}
                  \cup {[present |-> TRUE, repositories |-> r] : r \in repoLists}
  /\ inputBox = [i \in 1..Len(gitApi.repositories) |-> "previous text"]
  /\ commitPc = [g \in invocations |-> "idle"]
  /\ commitOffered = [g \in invocations |-> <<>>]
  /\ commitRepo = [g \in invocations |-> 0]
  /\ commitChunks = [g \in invocations |-> <<>>]
  /\ commitSent = [g \in invocations |-> <<>>]
  /\ commitAborted = [g \in invocations |-> FALSE]
  /\ commitCallback = [g \in invocations |-> "none"]
  /\ commitTask = [g \in invocations |-> "none"]
  /\ commitLog = [g \in invocations |-> <<>>]

CommitInit(repoLists) == CommitInitFor(repoLists, CommitInvocations)

Init == AuthInit /\ CommitInit({})

\* openAuthPage against an agent that may answer anything at any time.
Next ==
  \E a \in AuthInvocations :
    \/ AuthInvoke(a)
    \/ AuthTokenFires(a)
    \/ AuthRequestSettles(a, FALSE)
    \/ AuthOpenSettles(a)
    \/ AuthWaitSettles(a, FALSE)

Spec == Init /\ [][Next]_vars

\* openAuthPage against an agent that keeps its contract on cancellation.
NextContract ==
  \E a \in AuthInvocations :
    \/ AuthInvoke(a)
    \/ AuthTokenFires(a)
    \/ AuthRequestSettles(a, TRUE)
    \/ AuthOpenSettles(a)
    \/ AuthWaitSettles(a, TRUE)

SpecContract == Init /\ [][NextContract]_vars

\* The repository picker of generateCommitMessage, for every list of roots.
InitPicker == AuthInit /\ CommitInit(RepoLists)

NextPicker ==
  \E g \in CommitInvocations :
    \/ CommitInvoke(g)
    \/ CommitPickSettles(g)

SpecPicker == InitPicker /\ [][NextPicker]_vars

\* generateCommitMessage from its invocation to the end of its task, with no
\* repository, one repository, and a repository with a repository inside.
\* Every file has the same modification time: the order of the pieces is
\* not what this specification is about.
CommitRepoLists ==
  { <<>>, << <<"/", "c">> >>, << <<"/", "c", "/", "a">>, <<"/", "c">> >> }

FlowStatResults == {r \in StatResults : r.kind = "throw" \/ r.mtime = 1}

InitCommit == AuthInit /\ CommitInit(CommitRepoLists)

NextCommit ==
  \E g \in CommitInvocations :
    \/ CommitInvoke(g)
    \/ CommitPickSettles(g)
    \/ CommitDiffSettles(g, TRUE, DiffResults)
    \/ CommitDiffSettles(g, FALSE, DiffResults)
    \/ CommitTokenFires(g)
    \/ CommitStatSettles(g, FlowStatResults)
    \/ CommitAgentSettles(g, FALSE)

SpecCommit == InitCommit /\ [][NextCommit]_vars

\* generateCommitMessage against an agent that keeps its contract on
\* cancellation.
NextCommitContract ==
  \E g \in CommitInvocations :
    \/ CommitInvoke(g)
    \/ CommitPickSettles(g)
    \/ CommitDiffSettles(g, TRUE, DiffResults)
    \/ CommitDiffSettles(g, FALSE, DiffResults)
    \/ CommitTokenFires(g)
    \/ CommitStatSettles(g, FlowStatResults)
    \/ CommitAgentSettles(g, TRUE)

SpecCommitContract == InitCommit /\ [][NextCommitContract]_vars

\* Two invocations, as the claims about concurrent invocations have them.
TwoInvocations == {1, 2}

\* The order of the pieces: two invocations of generateCommitMessage on one
\* repository, diffs of three files, every modification time and failure
\* of stat, and no cancellation.
SortDiffResults ==
  {[kind |-> "text", text |-> t, error |-> "-"] :
     t \in {EmptyText} \cup {SortTextList[k] : k \in DOMAIN SortTextList}}

InitSort == AuthInit /\ CommitInitFor({<< <<"/", "c">> >>}, TwoInvocations)

NextSort ==
  \E g \in TwoInvocations :
    \/ CommitInvoke(g)
    \/ CommitDiffSettles(g, TRUE, SortDiffResults)
    \/ CommitDiffSettles(g, FALSE, SortDiffResults)
    \/ CommitStatSettles(g, StatResults)
    \/ CommitAgentSettles(g, FALSE)

SpecSort == InitSort /\ [][NextSort]_vars

\* Two invocations of generateCommitMessage on one repository, with their
\* tokens, and diffs of one file.
TwoDiffResults ==
  {[kind |-> "text", text |-> t, error |-> "-"] :
     t \in {EmptyText, << Header("f1"), <<"+x">>, <<>> >>}}

InitTwoCommit == AuthInit /\ CommitInitFor({<< <<"/", "c">> >>}, TwoInvocations)

NextTwoCommit ==
  \E g \in TwoInvocations :
    \/ CommitInvoke(g)
    \/ CommitDiffSettles(g, TRUE, TwoDiffResults)
    \/ CommitDiffSettles(g, FALSE, TwoDiffResults)
    \/ CommitTokenFires(g)
    \/ CommitStatSettles(g, FlowStatResults)
    \/ CommitAgentSettles(g, FALSE)

SpecTwoCommit == InitTwoCommit /\ [][NextTwoCommit]_vars

\* ------------------------------------------------------ reading the logs
Count(log, e) == Cardinality({i \in DOMAIN log : log[i] = e})

CountKind(log, kind) == Cardinality({i \in DOMAIN log : log[i][1] = kind})

Has(log, e) == \E i \in DOMAIN log : log[i] = e

\* The events that are a terminal outcome of the handshake.
SucceededEvents == {Ev("notify", "authSuccess", 0), Ev("notify", "alreadyAuthorized", 0)}

FailedEvents == {Ev("notify", "authFailed", 0)}

CancelledEvents == {Ev("return", "cancelled", 0)}

OutcomeEvents == SucceededEvents \cup FailedEvents \cup CancelledEvents

Outcomes(log) == {i \in DOMAIN log : log[i] \in OutcomeEvents}

\* The token fired while an agent call of the invocation was pending: the
\* signal was aborted before some agent call settled.
FiredWhilePending(log) ==
  \E i, j \in DOMAIN log :
    i < j /\ log[i][1] = "abort" /\ log[j][1] \in {"resolved", "thrown"}

\* ------------------------------------------------------------------ claims
\* C1: every invocation of tabby.openAuthPage that has ended has reached
\* exactly one of Succeeded, Failed, Cancelled, whatever the agent did, and an
\* invocation that has not ended has reached none.
C1_ExactlyOneOutcome ==
  \A a \in AuthInvocations :
    Cardinality(Outcomes(authLog[a])) = (IF authPc[a] = "done" THEN 1 ELSE 0)

C1_Witness ==
  \E a \in AuthInvocations :
    /\ authPc[a] = "done"
    /\ Has(authLog[a], Ev("thrown", "AssertionError", 0))
    /\ Has(authLog[a], Ev("notify", "authFailed", 0))

\* C2: a supplied onAuthStart is invoked exactly once, a supplied onAuthEnd
\* exactly once when the invocation ends and not before, onAuthStart before
\* onAuthEnd, and onAuthEnd after the terminal outcome, on every exit path.
C2_HooksOnceInOrder ==
  \A a \in AuthInvocations :
    LET log == authLog[a]
        cb == authCallbacks[a]
        start == Ev("hook", "onAuthStart", 0)
        end == Ev("hook", "onAuthEnd", 0) IN
    authPc[a] # "idle" =>
      /\ Count(log, start) = (IF cb.onAuthStart THEN 1 ELSE 0)
      /\ Count(log, end) = (IF cb.onAuthEnd /\ authPc[a] = "done" THEN 1 ELSE 0)
      /\ \A i, j \in DOMAIN log : (log[i] = start /\ log[j] = end) => i < j
      /\ \A i, j \in DOMAIN log : (log[i] \in OutcomeEvents /\ log[j] = end) => i < j
      /\ (Has(log, end) => Outcomes(log) # {})

C2_Witness ==
  \E a \in AuthInvocations :
    /\ authPc[a] = "done"
    /\ authCallbacks[a].onAuthStart /\ authCallbacks[a].onAuthEnd
    /\ Has(authLog[a], Ev("return", "cancelled", 0))
    /\ Has(authLog[a], Ev("hook", "onAuthEnd", 0))

\* C3: with an agent that keeps its contract on cancellation, a token that
\* fires while requestAuthUrl or waitForAuthToken is pending ends the
\* invocation in Cancelled and no notification is shown.
C3_CancelWhilePendingIsSilent ==
  \A a \in AuthInvocations :
    FiredWhilePending(authLog[a]) =>
      /\ authPc[a] = "done"
      /\ Has(authLog[a], Ev("return", "cancelled", 0))
      /\ CountKind(authLog[a], "notify") = 0

C3_Witness ==
  \E a \in AuthInvocations :
    /\ FiredWhilePending(authLog[a])
    /\ CountKind(authLog[a], "waitForAuthToken") = 1
    /\ authPc[a] = "done"

\* C4: once the abort signal of an invocation has fired it stays fired, and
\* from then on the invocation opens no browser, starts no token polling
\* and shows no success notification, even if the pending call resolves.
C4_NothingAfterAbort ==
  \A a \in AuthInvocations :
    LET log == authLog[a] IN
    /\ (Has(log, Ev("abort", "-", a)) => authAborted[a])
    /\ \A i, j \in DOMAIN log :
         (i < j /\ log[i][1] = "abort") =>
           /\ log[j][1] \notin {"openExternal", "waitForAuthToken"}
           /\ log[j] # Ev("notify", "authSuccess", 0)

\* C5: requestAuthUrl issues no url and the status is ready: the
\* already-authorized notification is shown once, no browser is opened,
\* waitForAuthToken is not called and no other notification is shown.
C5_AlreadyAuthorized ==
  \A a \in AuthInvocations :
    LET log == authLog[a] IN
    (\E i \in DOMAIN log : /\ log[i] = Ev("resolved", "null", 0)
                           /\ i < Len(log)
                           /\ log[i + 1] = Ev("getStatus", "ready", 0)) =>
      /\ authPc[a] = "done"
      /\ Count(log, Ev("notify", "alreadyAuthorized", 0)) = 1
      /\ CountKind(log, "notify") = 1
      /\ CountKind(log, "openExternal") = 0
      /\ CountKind(log, "waitForAuthToken") = 0

C5_Witness ==
  \E a \in AuthInvocations :
    /\ Has(authLog[a], Ev("resolved", "null", 0))
    /\ Has(authLog[a], Ev("getStatus", "ready", 0))
    /\ Has(authLog[a], Ev("notify", "alreadyAuthorized", 0))

\* C6: requestAuthUrl issues no url and the status is not ready: the
\* authorization-failed notification is shown once, no browser is opened
\* and waitForAuthToken is not called.
C6_NoUrlNotReadyFails ==
  \A a \in AuthInvocations :
    LET log == authLog[a] IN
    (\E i \in DOMAIN log : /\ log[i] = Ev("resolved", "null", 0)
                           /\ i < Len(log)
                           /\ log[i + 1][1] = "getStatus"
                           /\ log[i + 1][2] # "ready") =>
      /\ authPc[a] = "done"
      /\ Count(log, Ev("notify", "authFailed", 0)) = 1
      /\ CountKind(log, "notify") = 1
      /\ CountKind(log, "openExternal") = 0
      /\ CountKind(log, "waitForAuthToken") = 0

C6_Witness ==
  \E a \in AuthInvocations :
    /\ Has(authLog[a], Ev("resolved", "null", 0))
    /\ Has(authLog[a], Ev("getStatus", "unauthorized", 0))
    /\ Has(authLog[a], Ev("notify", "authFailed", 0))

C8_AssertionFailsLoudly ==
  \A a \in AuthInvocations :
    Has(authLog[a], Ev("thrown", "AssertionError", 0)) =>
      /\ ~Has(authLog[a], Ev("notify", "authSuccess", 0))
      /\ ~Has(authLog[a], Ev("notify", "authFailed", 0))
      /\ authTask[a] = "rejected"

\* C9: with no repository known to the host, an invoked generateCommitMessage
\* has ended, and all it did is show the no-repository message: no picker,
\* no diff call, no focus change, no progress task, no agent call and no
\* write to an input field.
C9_NoRepositoryEndsAtOnce ==
  \A g \in CommitInvocations :
    (Len(Repositories) = 0 /\ commitPc[g] # "idle") =>
      /\ commitPc[g] = "done"
      /\ commitCallback[g] = "resolved"
      /\ commitLog[g] = <<Ev("showInformationMessage", "No Git repositories found.", 0)>>
      /\ commitTask[g] = "none"
      /\ commitSent[g] = <<>>
      /\ commitOffered[g] = <<>>
      /\ \A i \in DOMAIN inputBox : inputBox[i] = "previous text"

C9_Witness ==
  \E g \in CommitInvocations :
    /\ gitApi.present /\ Len(Repositories) = 0
    /\ commitPc[g] = "done"
    /\ CountKind(commitLog[g], "showInformationMessage") = 1

\* root is inside parent: a sub-path of it.
IsSubPath(root, parent) == StartsWith(root, parent \o <<"/">>)

\* C10: the list the picker offers holds every repository exactly once and
\* places each root before every root that is a sub-path of it, for every
\* list of two or more repositories.
C10_ParentBeforeChild ==
  \A g \in CommitInvocations :
    LET offered == commitOffered[g]
        repos == Repositories IN
    (Len(repos) >= 2 /\ commitPc[g] # "idle") =>
      /\ Len(offered) = Len(repos)
      /\ \A r \in DOMAIN repos :
           Cardinality({i \in DOMAIN offered :
                          offered[i].value = r /\ offered[i].detail = repos[r]}) = 1
      /\ \A i, j \in DOMAIN offered :
           IsSubPath(offered[j].detail, offered[i].detail) => i < j

\* Neither root is a sub-path of the other.
Unrelated(a, b) == a # b /\ ~IsSubPath(a, b) /\ ~IsSubPath(b, a)

\* C11: in the list the picker offers, two repositories neither of whose
\* roots is a sub-path of the other stand in the order of their names, the
\* base names of their roots, for every list of repositories.
C11_UnrelatedByName ==
  \A g \in CommitInvocations :
    LET offered == commitOffered[g] IN
    \A i, j \in DOMAIN offered :
      (i < j /\ Unrelated(offered[i].detail, offered[j].detail)) =>
        /\ offered[i].label = Basename(offered[i].detail)
        /\ offered[j].label = Basename(offered[j].detail)
        /\ LocaleCompare(offered[i].label, offered[j].label) <= 0

\* No invocation has written the input field of repository r.
Unwritten(r) ==
  \A h \in DOMAIN commitLog :
    \A i \in DOMAIN commitLog[h] :
      ~(commitLog[h][i][1] = "inputBox" /\ commitLog[h][i][3] = r)

\* C12: with several repositories, an invocation whose picker the user
\* dismissed has ended, and all it did is show the picker: no diff call, no
\* focus change, no progress task, no agent call, no write to an input field.
C12_DismissedPickerEndsQuietly ==
  \A g \in CommitInvocations :
    (Len(Repositories) >= 2 /\ Has(commitLog[g], Ev("picked", "undefined", 0))) =>
      /\ commitPc[g] = "done"
      /\ commitCallback[g] = "resolved"
      /\ commitLog[g] = <<Ev("showQuickPick", "Select a Git repository", 0),
                          Ev("picked", "undefined", 0)>>
      /\ commitTask[g] = "none"
      /\ commitChunks[g] = <<>>
      /\ commitSent[g] = <<>>
      /\ \A r \in DOMAIN inputBox : Unwritten(r) => inputBox[r] = "previous text"

C12_Witness ==
  \E g \in CommitInvocations :
    /\ Len(Repositories) >= 2
    /\ commitPc[g] = "done"
    /\ Has(commitLog[g], Ev("picked", "undefined", 0))

\* The texts repo.diff(true) and repo.diff(false) resolved to, trimmed, as
\* the log names them; the empty set when the call did not resolve.
Resolved(log, which) ==
  {Trim(KnownTexts[log[i][3]]) :
     i \in {k \in DOMAIN log : log[k][1] = "diffResolved" /\ log[k][2] = which}}

\* The pieces of the diff the progress task took up.
TakenUp(g) == [i \in DOMAIN commitChunks[g] |-> commitChunks[g][i].diff]

C14_BothEmptyEndsQuietly ==
  \A g \in CommitInvocations :
    LET log == commitLog[g] IN
    (Resolved(log, "staged") = {EmptyText} /\ Resolved(log, "unstaged") = {EmptyText}) =>
      /\ commitPc[g] = "done"
      /\ commitCallback[g] = "resolved"
      /\ commitTask[g] = "none"
      /\ CountKind(log, "generateCommitMessage") = 0
      /\ CountKind(log, "stat") = 0
      /\ CountKind(log, "executeCommand") = 0
      /\ CountKind(log, "withProgress") = 0
      /\ CountKind(log, "inputBox") = 0
      /\ commitSent[g] = <<>>
      /\ (Unwritten(commitRepo[g]) => inputBox[commitRepo[g]] = "previous text")

C14_Witness ==
  \E g \in CommitInvocations :
    /\ Resolved(commitLog[g], "staged") = {EmptyText}
    /\ Resolved(commitLog[g], "unstaged") = {EmptyText}
    /\ Has(commitLog[g], Ev("diffResolved", "unstaged", 2))
    /\ commitPc[g] = "done"

\* The values the invocations have written to the input field of r.
Written(r) ==
  UNION {{commitLog[h][i][2] :
            i \in {k \in DOMAIN commitLog[h] :
                     commitLog[h][k][1] = "inputBox" /\ commitLog[h][k][3] = r}} :
         h \in DOMAIN commitLog}

\* C15: an invocation writes an input field at most once, only that of the
\* selected repository, only right after its agent call resolved, and with
\* the message the call resolved to; every resolved agent call is followed
\* by that write; a field holds its first text until an invocation writes
\* it and then a message written to it.
C15_WriteFollowsAgentSuccess ==
  /\ \A g \in CommitInvocations :
       LET log == commitLog[g] IN
       /\ CountKind(log, "inputBox") <= 1
       /\ \A i \in DOMAIN log :
            log[i][1] = "inputBox" =>
              /\ log[i][3] = commitRepo[g]
              /\ i > 1
              /\ log[i - 1] = Ev("generated", log[i][2], 0)
              /\ \E j \in 1..(i - 1) : log[j] = Ev("generateCommitMessage", "-", g)
       /\ \A i \in DOMAIN log :
            log[i][1] = "generated" =>
              /\ i < Len(log)
              /\ log[i + 1] = Ev("inputBox", log[i][2], commitRepo[g])
              /\ commitTask[g] = "resolved"
  /\ \A r \in DOMAIN inputBox :
       IF Unwritten(r) THEN inputBox[r] = "previous text" ELSE inputBox[r] \in Written(r)

C15_Witness ==
  \E g \in CommitInvocations :
    /\ Len(Repositories) = 2
    /\ commitRepo[g] = 2
    /\ Has(commitLog[g], Ev("generated", "message 2", 0))
    /\ inputBox[2] = "message 2"
    /\ inputBox[1] = "previous text"

\* The token of the invocation fired before the invocation wrote a field.
FiredBeforeWrite(log) ==
  \E i \in DOMAIN log :
    /\ log[i][1] = "abort"
    /\ \A j \in DOMAIN log : log[j][1] = "inputBox" => i < j

\* C16: with an agent that keeps its contract on cancellation, an invocation
\* whose token fired before a message was written, during the file lookups
\* or during the agent call, writes no input field: the field of its
\* repository holds what it held, unless another invocation wrote it.
C16_CancelledLeavesInput ==
  \A g \in CommitInvocations :
    FiredBeforeWrite(commitLog[g]) =>
      /\ CountKind(commitLog[g], "inputBox") = 0
      /\ CountKind(commitLog[g], "generated") = 0
      /\ (Unwritten(commitRepo[g]) => inputBox[commitRepo[g]] = "previous text")

C16_Witness ==
  \E g \in CommitInvocations :
    LET log == commitLog[g] IN
    /\ commitPc[g] = "done"
    /\ \E i, j \in DOMAIN log :
         /\ i < j
         /\ log[i][1] = "stat"
         /\ log[i + 1][1] = "abort"
         /\ log[j] = Ev("generateCommitMessage", "-", g)
    /\ log[Len(log)] = Ev("thrown", "AbortError", 0)
    /\ inputBox[commitRepo[g]] = "previous text"

\* The agent call of a cancelled invocation failed with a cancellation: the
\* log holds the abort and, after it, the AbortError.
CancelledCallFailed(log) ==
  \E i, j \in DOMAIN log :
    i < j /\ log[i][1] = "abort" /\ log[j] = Ev("thrown", "AbortError", 0)

\* The task of a cancelled openAuthPage completes normally (an onAuthEnd
\* hook that throws is the caller's own error, not the cancellation).
AuthAbsorbsCancellation ==
  \A a \in AuthInvocations :
    (CancelledCallFailed(authLog[a]) /\ ~authCallbacks[a].onAuthEnd) =>
      authPc[a] = "done" /\ authTask[a] = "resolved"

\* The task of a cancelled generateCommitMessage completes normally and the
\* callback of the command has not rejected.
CommitAbsorbsCancellation ==
  \A g \in CommitInvocations :
    CancelledCallFailed(commitLog[g]) =>
      commitPc[g] = "done" /\ commitTask[g] = "resolved" /\ commitCallback[g] = "resolved"

\* C17: in both flows, when the agent call of a cancelled invocation fails
\* with a cancellation error the progress task completes normally instead
\* of rejecting, and no error reaches the caller.
C17_CancellationAbsorbed == AuthAbsorbsCancellation /\ CommitAbsorbsCancellation

\* The agent call of the invocation failed with an error that is not a
\* cancellation.
AgentCallFailed(g) ==
  \E i, j \in DOMAIN commitLog[g] :
    /\ i < j
    /\ commitLog[g][i] = Ev("generateCommitMessage", "-", g)
    /\ commitLog[g][j] = Ev("thrown", "Error", 0)

\* C18: when the agent's generateCommitMessage call fails with an error that
\* is not a cancellation, the promise the callback of the command returned
\* rejects with it, and no input field is written by the invocation.
C18_AgentErrorReachesCaller ==
  \A g \in CommitInvocations :
    AgentCallFailed(g) =>
      /\ commitCallback[g] = "rejected"
      /\ CountKind(commitLog[g], "inputBox") = 0

\* C19: when the agent's generateCommitMessage call fails with an error that
\* is not a cancellation, the invocation shows exactly one notification and
\* has called the agent once.
C19_AgentErrorNotifiedOnce ==
  \A g \in CommitInvocations :
    AgentCallFailed(g) =>
      /\ CountKind(commitLog[g], "notify")
           + CountKind(commitLog[g], "showInformationMessage") = 1
      /\ CountKind(commitLog[g], "generateCommitMessage") = 1
      /\ commitTask[g] = "resolved"

\* The string s followed by the string t: the last line of s runs on into
\* the first line of t.
Concat(s, t) ==
  SubSeq(s, 1, Len(s) - 1) \o <<s[Len(s)] \o t[1]>> \o SubSeq(t, 2, Len(t))

\* The strings of a sequence one after the other; joined by sep, which is
\* the empty string or a line feed.
RECURSIVE JoinAll(_, _)
JoinAll(pieces, sep) ==
  IF Len(pieces) = 0 THEN EmptyText
  ELSE IF Len(pieces) = 1 THEN pieces[1]
  ELSE Concat(Concat(pieces[1], sep), JoinAll(Tail(pieces), sep))

LineFeed == << <<>>, <<>> >>

\* The diff the task of the invocation was started on.
DiffUsed(g) ==
  CHOOSE d \in Resolved(commitLog[g], "staged") \cup Resolved(commitLog[g], "unstaged") :
    d # EmptyText

\* What does hold of the split: the pieces with a line feed between them are
\* the diff.
ChunksJoinedByLineFeed ==
  \A g \in CommitInvocations :
    commitTask[g] # "none" => JoinAll(TakenUp(g), LineFeed) = DiffUsed(g)

\* C20: the pieces a diff is split into, one after the other in the order of
\* the split, are the diff again: no character dropped or duplicated.
C20_ChunksConcatenateToDiff ==
  \A g \in CommitInvocations :
    commitTask[g] # "none" => JoinAll(TakenUp(g), EmptyText) = DiffUsed(g)

\* How often x stands in the sequence seq.
Occurrences(seq, x) == Cardinality({i \in DOMAIN seq : seq[i] = x})

\* The invocation has called the agent.
AgentCalled(g) == Has(commitLog[g], Ev("generateCommitMessage", "-", g))

\* C21: the pieces passed to the agent are a permutation of the pieces of
\* the split: as many, every piece of the split as often as the split holds
\* it, and each with its text.
C21_SentIsPermutation ==
  \A g \in DOMAIN commitLog :
    AgentCalled(g) =>
      /\ TakenUp(g) = SplitDiff(DiffUsed(g))
      /\ Len(commitSent[g]) = Len(TakenUp(g))
      /\ \A i \in DOMAIN TakenUp(g) :
           Occurrences(commitSent[g], TakenUp(g)[i]) = Occurrences(TakenUp(g), TakenUp(g)[i])

C21_Witness ==
  \E g \in DOMAIN commitLog :
    /\ AgentCalled(g)
    /\ Len(commitSent[g]) = 3
    /\ commitSent[g] # TakenUp(g)
    /\ \E i \in DOMAIN commitChunks[g] : commitChunks[g][i].priority = MAX_SAFE_INTEGER

\* The priority key the invocation gave the piece with the text diff.
PriorityOf(g, diff) ==
  LET i == CHOOSE k \in DOMAIN commitChunks[g] : commitChunks[g][k].diff = diff
  IN commitChunks[g][i].priority

\* C22: the pieces passed to the agent stand in ascending order of their
\* modification times, and a piece whose header names no file stands at or
\* after every piece with a modification time, whatever stat would say.
C22_AscendingSentinelLast ==
  \A g \in DOMAIN commitLog :
    AgentCalled(g) =>
      LET sent == commitSent[g] IN
      /\ \A i, j \in DOMAIN sent :
           i < j => PriorityOf(g, sent[i]) <= PriorityOf(g, sent[j])
      /\ \A i, j \in DOMAIN sent :
           (~HasFilePath(sent[i]) /\ HasFilePath(sent[j])) =>
             /\ PriorityOf(g, sent[i]) = MAX_SAFE_INTEGER
             /\ PriorityOf(g, sent[j]) \in Mtimes
             /\ j < i

C22_Witness ==
  \E g \in DOMAIN commitLog :
    /\ AgentCalled(g)
    /\ Len(commitSent[g]) = 3
    /\ ~HasFilePath(commitSent[g][3])
    /\ commitSent[g][3] = TakenUp(g)[1]
    /\ PriorityOf(g, commitSent[g][1]) < PriorityOf(g, commitSent[g][2])
    /\ commitSent[g][1] = TakenUp(g)[3]

\* The pieces of the invocation whose stat call failed.
StatFailed(g) ==
  {commitLog[g][i][3] : i \in {k \in DOMAIN commitLog[g] :
                                 commitLog[g][k][1] = "thrown" /\ commitLog[g][k][3] >= 1}}

\* C23: a stat call that fails costs its piece its modification time and
\* nothing else: the piece keeps the sentinel, the task goes on, and once
\* every lookup has settled the agent is called with all the pieces.
C23_FailedStatOnlyDegrades ==
  \A g \in DOMAIN commitLog :
    \A k \in StatFailed(g) :
      /\ commitChunks[g][k].priority = MAX_SAFE_INTEGER
      /\ commitTask[g] # "rejected" \/ AgentCalled(g)
      /\ AllSettled(commitChunks[g]) =>
           AgentCalled(g) /\ Len(commitSent[g]) = Len(commitChunks[g])

\* C24: two pieces with equal priority keys, equal modification times or
\* the sentinel twice, stand in the sequence passed to the agent in the
\* order the split gave them.
C24_SortIsStable ==
  \A g \in DOMAIN commitLog :
    AgentCalled(g) =>
      \A i, j \in DOMAIN commitChunks[g] :
        (i < j /\ commitChunks[g][i].priority = commitChunks[g][j].priority) =>
          \E m, n \in DOMAIN commitSent[g] :
            /\ m < n
            /\ commitSent[g][m] = commitChunks[g][i].diff
            /\ commitSent[g][n] = commitChunks[g][j].diff

C24_Witness ==
  \E g \in DOMAIN commitLog :
    /\ AgentCalled(g)
    /\ Len(commitChunks[g]) = 3
    /\ commitChunks[g][1].priority = commitChunks[g][3].priority
    /\ commitChunks[g][2].priority < commitChunks[g][1].priority
    /\ commitSent[g] = <<commitChunks[g][2].diff, commitChunks[g][1].diff,
                         commitChunks[g][3].diff>>

\* The diff has no file boundary: none of its lines begins a file.
NoFileBoundary(text) == \A i \in DOMAIN text : ~StartsWithDiff(text[i])

\* C25: a diff with no file boundary gives prioritization nothing: the
\* sequence of pieces is empty, the agent is called with no piece, and the
\* task does not fail.
C25_NoBoundaryNoChunks ==
  \A g \in DOMAIN commitLog :
    (commitTask[g] # "none" /\ NoFileBoundary(DiffUsed(g))) =>
      /\ TakenUp(g) = <<>>
      /\ commitSent[g] = <<>>
      /\ commitTask[g] # "rejected"

\* A step of openAuthPage leaves the signal of every invocation aborted if
\* it was, the log shows the abort once if the signal is aborted and not at
\* all if not, and a first firing after the end of the invocation adds that
\* abort to the log and changes nothing else.
AuthBridgeStep ==
  \A a \in DOMAIN authPc :
    /\ authAborted[a] => authAborted'[a]
    /\ Count(authLog'[a], Ev("abort", "-", a)) = (IF authAborted'[a] THEN 1 ELSE 0)
    /\ (authPc[a] = "done" /\ authAborted'[a] # authAborted[a]) =>
         /\ authLog'[a] = Append(authLog[a], Ev("abort", "-", a))
         /\ authPc'[a] = "done"
         /\ authTask'[a] = authTask[a]
         /\ authCallbacks'[a] = authCallbacks[a]
         /\ inputBox' = inputBox

\* The same of a step of generateCommitMessage.
CommitBridgeStep ==
  \A g \in DOMAIN commitPc :
    /\ commitAborted[g] => commitAborted'[g]
    /\ Count(commitLog'[g], Ev("abort", "-", g)) = (IF commitAborted'[g] THEN 1 ELSE 0)
    /\ (commitPc[g] = "done" /\ commitAborted'[g] # commitAborted[g]) =>
         /\ commitLog'[g] = Append(commitLog[g], Ev("abort", "-", g))
         /\ commitPc'[g] = "done"
         /\ commitTask'[g] = commitTask[g]
         /\ commitCallback'[g] = commitCallback[g]
         /\ commitSent'[g] = commitSent[g]
         /\ inputBox' = inputBox

\* C26: however often the token of an invocation fires, its abort signal
\* goes from not aborted to aborted once and stays aborted, and a firing
\* after the invocation has ended changes no outcome, notification, hook
\* count or input field.
C26_BridgeIdempotent == [][AuthBridgeStep /\ CommitBridgeStep]_vars

C26_Witness ==
  \E a \in DOMAIN authPc :
    /\ authPc[a] = "done"
    /\ authAborted[a]
    /\ authCallbacks[a].onAuthEnd
    /\ Len(authLog[a]) >= 2
    /\ authLog[a][Len(authLog[a])] = Ev("abort", "-", a)
    /\ authLog[a][Len(authLog[a]) - 1] = Ev("hook", "onAuthEnd", 0)
    /\ Has(authLog[a], Ev("notify", "authSuccess", 0))

\* A step that changes the signal of one invocation of openAuthPage changes
\* nothing of another, and the agent calls and the abort in the log of an
\* invocation carry its own signal.
AuthOwnSignalStep ==
  \A a, b \in DOMAIN authPc :
    /\ (a # b /\ authAborted'[a] # authAborted[a]) =>
         /\ authAborted'[b] = authAborted[b]
         /\ authLog'[b] = authLog[b]
         /\ authPc'[b] = authPc[b]
         /\ authTask'[b] = authTask[b]
    /\ \A i \in DOMAIN authLog'[b] :
         authLog'[b][i][1] \in {"abort", "requestAuthUrl", "waitForAuthToken"} =>
           authLog'[b][i][3] = b

\* The same of generateCommitMessage.
CommitOwnSignalStep ==
  \A g, h \in DOMAIN commitPc :
    /\ (g # h /\ commitAborted'[g] # commitAborted[g]) =>
         /\ commitAborted'[h] = commitAborted[h]
         /\ commitLog'[h] = commitLog[h]
         /\ commitPc'[h] = commitPc[h]
         /\ commitTask'[h] = commitTask[h]
         /\ commitSent'[h] = commitSent[h]
         /\ inputBox' = inputBox
    /\ \A i \in DOMAIN commitLog'[h] :
         commitLog'[h][i][1] \in {"abort", "generateCommitMessage"} =>
           commitLog'[h][i][3] = h

\* C27: each invocation owns its abort signal: with two invocations of one
\* command, the token of one aborts the signal of that invocation only and
\* changes nothing of the other, whose agent calls carry its own signal.
C27_OwnSignal == [][AuthOwnSignalStep /\ CommitOwnSignalStep]_vars

C27_Witness ==
  /\ commitAborted[1] /\ ~commitAborted[2]
  /\ Has(commitLog[1], Ev("thrown", "AbortError", 0))
  /\ commitPc[2] = "done"
  /\ Has(commitLog[2], Ev("generated", "message 2", 0))
  /\ \E i, j \in DOMAIN commitLog[1] :
       i < j /\ commitLog[1][i] = Ev("generateCommitMessage", "-", 1)
             /\ commitLog[1][j] = Ev("abort", "-", 1)

\* The steps of the handshake in the log of an invocation.
HandshakeSteps(log) ==
  SelectSeq(log, LAMBDA e :
    \/ e[1] \in {"report", "requestAuthUrl", "resolved", "openExternal", "waitForAuthToken"}
    \/ e = Ev("notify", "authSuccess", 0))

IsPrefix(s, t) == Len(s) <= Len(t) /\ \A i \in DOMAIN s : s[i] = t[i]

\* The handshake of invocation a around the url and code of issued.
FullHandshake(a, issued) ==
  <<Ev("report", "generating", 0), Ev("requestAuthUrl", "-", a),
    Ev("resolved", issued.authUrl, 0), Ev("openExternal", issued.authUrl, 0),
    Ev("report", "waiting", 0), Ev("waitForAuthToken", issued.code, a),
    Ev("resolved", "token", 0), Ev("notify", "authSuccess", 0)>>

\* The steps an invocation has taken are the first steps of one handshake,
\* or they end where no url was issued.
HandshakeCallsInOrder ==
  \A a \in DOMAIN authLog :
    LET steps == HandshakeSteps(authLog[a]) IN
    \/ \E issued \in AuthUrls : IsPrefix(steps, FullHandshake(a, issued))
    \/ IsPrefix(steps, <<Ev("report", "generating", 0), Ev("requestAuthUrl", "-", a),
                         Ev("resolved", "null", 0)>>)

\* The step after the opening of the browser has not been taken while the
\* opening has not completed.
OpeningCompletedFirst ==
  \A a \in DOMAIN authLog :
    Has(authLog[a], Ev("report", "waiting", 0)) => authOpen[a] \in OpenExternalResults

\* C28: the steps of the handshake occur in one order: the generating
\* report, requestAuthUrl, the opening of the issued url, the waiting report,
\* waitForAuthToken with the code issued with that url and the signal of
\* requestAuthUrl, the success notification; and no step occurs before the
\* step before it has completed.
C28_HandshakeInOrder == HandshakeCallsInOrder /\ OpeningCompletedFirst

\* The order the modification times alone give the pieces of entries: by
\* ascending time, pieces of one time in the order of the diff.
OrderByTime(entries) ==
  LET n == Len(entries)
      place == CHOOSE p \in [1..n -> 1..n] :
                 /\ \A i, j \in 1..n : i # j => p[i] # p[j]
                 /\ \A i, j \in 1..n :
                      i < j => \/ entries[p[i]].priority < entries[p[j]].priority
                               \/ /\ entries[p[i]].priority = entries[p[j]].priority
                                  /\ p[i] < p[j]
  IN [i \in 1..n |-> entries[place[i]].diff]

\* Every lookup of the invocation has completed, and with a time.
LookupsCompleted(g) ==
  /\ commitChunks[g] # <<>>
  /\ \A i \in DOMAIN commitChunks[g] : ~commitChunks[g][i].pending
  /\ StatFailed(g) = {}

\* C29: the order of the pieces passed to the agent is fixed by the diff
\* and the modification times of its files, whatever the order the lookups
\* complete in, and the agent is called once, after every lookup completed.
C29_OrderIsDeterministic ==
  \A g \in DOMAIN commitLog :
    /\ CountKind(commitLog[g], "generateCommitMessage") <= 1
    /\ AgentCalled(g) <=> LookupsCompleted(g)
    /\ AgentCalled(g) => commitSent[g] = OrderByTime(commitChunks[g])
    /\ \A h \in DOMAIN commitLog :
         (AgentCalled(g) /\ AgentCalled(h) /\ commitChunks[g] = commitChunks[h])
           => commitSent[g] = commitSent[h]

\* One invocation has called the agent with three pieces in another order
\* than the diff's; the other, on the same diff, has the lookup of its last
\* piece completed before that of its first.
C29_Witness ==
  /\ AgentCalled(1)
  /\ Len(commitSent[1]) = 3
  /\ commitSent[1] # TakenUp(1)
  /\ ~AgentCalled(2)
  /\ TakenUp(2) = TakenUp(1)
  /\ commitChunks[2][1].pending /\ ~commitChunks[2][3].pending

\* The messages of the agent calls of invocation g that resolve in the step.
ResolvedInStep(g) ==
  {commitLog'[g][i][2] :
     i \in {k \in DOMAIN commitLog'[g] :
              k > Len(commitLog[g]) /\ commitLog'[g][k][1] = "generated"}}

\* The callback of a started task has completed; an agent call that
\* resolves leaves its message in the field of its repository; and the
\* field changes in no other step.
OverlapStep ==
  /\ \A g \in DOMAIN commitLog :
       commitTask'[g] # "none" => commitCallback'[g] = "resolved"
  /\ \A g \in DOMAIN commitLog :
       \A m \in ResolvedInStep(g) : inputBox'[commitRepo[g]] = m
  /\ inputBox' # inputBox => \E g \in DOMAIN commitLog : ResolvedInStep(g) # {}

\* C30: the callback completes without waiting for the progress task, so
\* invocations overlap; every agent call that resolves writes the field,
\* which so holds the message of the call that resolved last, whichever
\* invocation was invoked last.
C30_LastResolvedWins == [][OverlapStep]_vars

\* Both invocations have written the field of the one repository, and it
\* holds the message of the first.
C30_Witness ==
  /\ commitPc[1] = "done" /\ commitPc[2] = "done"
  /\ commitCallback[1] = "resolved" /\ commitCallback[2] = "resolved"
  /\ commitRepo[1] = commitRepo[2]
  /\ Has(commitLog[1], Ev("generated", "message 1", 0))
  /\ Has(commitLog[2], Ev("generated", "message 2", 0))
  /\ inputBox[commitRepo[1]] = "message 1"

\* A run in which the second invocation is invoked while the first is
\* generating, resolves first, and the field ends with the first's message.
InvokedLastLoses ==
  <>(/\ commitPc[1] = "generating" /\ commitPc[2] = "idle"
     /\ <>(/\ commitPc[1] = "generating" /\ commitPc[2] = "done"
           /\ inputBox[1] = "message 2"
           /\ <>C30_Witness))

\* TLC refutes this with such a run.
NeverInvokedLastLoses == ~InvokedLastLoses

====
